---- MODULE Spec2Model ----
(***************************************************************************)
(* Model of the memedeck gateway process (holium/memedeck-hyperware-app).  *)
(*                                                                         *)
(* The process owns one request loop (main_loop).  Every message returned  *)
(* by await_message is handled to completion before the next one is read.  *)
(* Two builds of the process exist in the repository:                      *)
(*   "memory"    src/memedeck/src/lib.rs       cookie: Option<String>      *)
(*   "persisted" src/memedeck/src/lib copy.rs  VersionedState + set_state  *)
(* Both call proxy::run_proxy (src/memedeck/src/proxy.rs).                 *)
(*                                                                         *)
(* Option<T> is modelled as a sequence: <<>> is None, <<x>> is Some(x).    *)
(* Header values and content types are sequences of one-character strings  *)
(* so that the regex and to_str() of the code are computed, not assumed.   *)
(***************************************************************************)
EXTENDS Integers, Sequences, FiniteSets, TLC

VARIABLES variant, running, cookie, state, persisted, inbox, last

vars == <<variant, running, cookie, state, persisted, inbox, last>>

(***************************************************************************)
(* Bounds of the model.                                                    *)
(***************************************************************************)
MaxInbox == 2

(***************************************************************************)
(* Compiled configuration.                                                 *)
(***************************************************************************)
WEB2_URL == "https://hyperware.memedeck.xyz"
WEB2_LOGIN_ENDPOINT == "https://api.memedeck.xyz/v2/auth/hyperware/login"
WEB2_URL_COPY == "https://staging.memedeck.xyz"
WEB2_LOGIN_ENDPOINT_COPY == "https://staging-api.memedeck.xyz/v2/auth/hyperware/login"
WEB2_LOGIN_NONCE == "951f64b8-5905-47f8-b12c-3ca8f53119f2"
PACKAGE_SEGMENT == "memedeck:memedeck:memedeck-tester.os"
HTTP_SERVER == "http-server:distro:sys"
SIGNER == "sign:sign:sys"
SIGNER_TIMEOUT == 10
LOGIN_TIMEOUT == 5000
PROXY_TIMEOUT == 6000
OUR == "alice.os"

None == <<>>
Some(x) == <<x>>
Variants == {"memory", "persisted"}

(***************************************************************************)
(* Strings as character sequences.                                         *)
(***************************************************************************)
RECURSIVE Str(_)
Str(cs) == IF cs = <<>> THEN "" ELSE Head(cs) \o Str(Tail(cs))

\* A byte outside visible ASCII, as HeaderValue::to_str() rejects it.
HighByte == "\\xE9"

\* HeaderValue::to_str(): Ok exactly when every byte is visible ASCII.
to_str_ok(cs) == \A i \in 1..Len(cs) : cs[i] # HighByte

(***************************************************************************)
(* Byte strings.  A byte string is [utf8, data]: whether the bytes are     *)
(* valid UTF-8, and the bytes themselves.                                  *)
(***************************************************************************)
Text(s) == [utf8 |-> TRUE, data |-> s]
Binary(s) == [utf8 |-> FALSE, data |-> s]

\* String::from_utf8: Ok(s) only for valid UTF-8.
from_utf8(b) == IF b.utf8 THEN Some(b.data) ELSE None

\* general_purpose::STANDARD.encode
base64(b) == "base64(" \o b.data \o ")"

\* Values of get_now() the model draws from.
Times == {1700000000, 1700000001}

\* serde_json::to_vec(&LoginMessage { site, time, nonce })
LoginMessage(site, time, nonce) ==
    Text("{\"site\":\"" \o site \o "\",\"time\":" \o ToString(time)
         \o ",\"nonce\":\"" \o nonce \o "\"}")

(***************************************************************************)
(* Collaborators: what the signer, the login endpoint and the runtime can  *)
(* answer.  send_and_await_response(10) yields Ok(Ok(response)) or         *)
(* Ok(Err(SendError)); the outer error is a request built without target   *)
(* or body, which these call sites never build.                            *)
(***************************************************************************)
Signature == Binary("sig")
CanonicalText == Text("canonical-message")
CanonicalBinary == Binary("canonical-bytes")

SignerReplies(blobs) ==
    {[transport |-> "timeout", reports |-> "none", blob |-> None]}
    \cup {[transport |-> "ok", reports |-> r, blob |-> b] :
            r \in {"ok", "error"}, b \in {None} \cup {Some(x) : x \in blobs}}

SignReplies == SignerReplies({Signature})
VerifyReplies == SignerReplies({})
MakeMessageReplies == SignerReplies({CanonicalText, CanonicalBinary})

\* Cookie values are character sequences.
CookieName == <<"h", "y", "p", "e", "r", "w", "a", "r", "e", "_", "t", "o", "k", "e", "n", "=">>
CookieSuffix == <<";", " ", "p", "a", "t", "h", "=", "/", ";">>
SessionCookie == <<"s", "e", "s", "s", "i", "o", "n", "=", "a", "b", "c", "1", "2", "3">>
\* A Set-Cookie header value holding a byte that is not visible ASCII.
OpaqueSetCookie == <<"s", "=", HighByte>>
\* JSON strings a login endpoint can put in its `cookie` field; the second
\* holds a control character, which a JSON string may carry escaped.
Token == <<"t", "o", "k">>
CtlByte == "\n"
CtlToken == <<"t", CtlByte>>

\* The JSON `cookie` field: absent, a string, or another JSON value.
JsonString(v) == [string |-> TRUE, v |-> v]
JsonOther == [string |-> FALSE, v |-> <<>>]

LoginReplies ==
    {[transport |-> "error", json |-> FALSE, ok |-> FALSE, cookie |-> None,
      set_cookie |-> None],
     [transport |-> "ok", json |-> FALSE, ok |-> FALSE, cookie |-> None,
      set_cookie |-> None]}
    \cup {[transport |-> "ok", json |-> TRUE, ok |-> o, cookie |-> c, set_cookie |-> h] :
            o \in BOOLEAN,
            c \in {None, Some(JsonString(Token)), Some(JsonString(CtlToken)), Some(JsonOther)},
            h \in {None, Some(SessionCookie), Some(OpaqueSetCookie)}}

(***************************************************************************)
(* External calls and HTTP responses, as records.                          *)
(***************************************************************************)
Call(service, to, kind, arg, blob, timeout) ==
    [service |-> service, to |-> to, kind |-> kind, arg |-> arg, blob |-> blob,
     timeout |-> timeout]

HttpResponse(status, headers, page, rewriter, body) ==
    [status |-> status, headers |-> headers, page |-> page, rewriter |-> rewriter,
     body |-> body]

(***************************************************************************)
(* Session State of the persisted build: VersionedState and the runtime's  *)
(* state store (set_state / get_typed_state).  The store holds None until  *)
(* the first set_state.                                                    *)
(***************************************************************************)
V1(c) == [version |-> "V1", cookie |-> c]

\* VersionedState::load: the stored record, the default when there is none.
load(store) == IF store = None THEN V1(None) ELSE store[1]

\* VersionedState::save_cookie(&self, cookie): builds a new record and hands it
\* to set_state; self is borrowed immutably and keeps its value.
save_cookie(self, c) == [self |-> self, store |-> Some(V1(Some(c)))]

\* VersionedState::wipe_cookie(&self): set_state of a record without cookie;
\* self keeps its value.
wipe_cookie(self) == [self |-> self, store |-> Some(V1(None))]

\* VersionedState::get_cookie
get_cookie(self) == self.cookie

(***************************************************************************)
(* The login handshake.                                                    *)
(***************************************************************************)
JsonHeaders == "Content-Type" :> "application/json"

\* Mutant of login_request: the message is always sent as base64.
login_request_base64(endpoint, our, message, signature) ==
    Call("login", endpoint, "POST", JsonHeaders,
         [node |-> our, message |-> base64(message), signature |-> base64(signature)],
         LOGIN_TIMEOUT)

\* The POST attempt_login sends: json!({node, message, signature}).
login_request(endpoint, our, message, signature) ==
    LET utf8 == from_utf8(message)
        message_str == IF utf8 # None THEN utf8[1] ELSE base64(message)
        signature_base64 == base64(signature)
        json == [node |-> our, message |-> message_str, signature |-> signature_base64]
    IN Call("login", endpoint, "POST", JsonHeaders, json, LOGIN_TIMEOUT)

LoginResult(result, value, self, store, calls) ==
    [result |-> result, value |-> value, self |-> self, store |-> store, calls |-> calls]

\* Mutant of attempt_login: a body without `cookie` counts as an empty token.
attempt_login_lenient(our, message, signature, res) ==
    LET post == login_request(WEB2_LOGIN_ENDPOINT, our, message, signature)
        Err == LoginResult("err", None, V1(None), None, <<post>>)
        token == IF res.cookie = None THEN <<>> ELSE res.cookie[1].v
    IN IF res.transport # "ok" THEN Err
       ELSE IF ~res.json THEN Err
       ELSE IF res.cookie # None /\ ~res.cookie[1].string THEN Err
       ELSE LoginResult("ok", Some(CookieName \o token \o CookieSuffix),
                        V1(None), None, <<post>>)

\* Mutant of attempt_login: the `cookie` field is returned as it came.
attempt_login_raw(our, message, signature, res) ==
    LET post == login_request(WEB2_LOGIN_ENDPOINT, our, message, signature)
        Err == LoginResult("err", None, V1(None), None, <<post>>)
    IN IF res.transport # "ok" THEN Err
       ELSE IF ~res.json THEN Err
       ELSE IF res.cookie = None THEN Err
       ELSE IF ~res.cookie[1].string THEN Err
       ELSE LoginResult("ok", Some(res.cookie[1].v), V1(None), None, <<post>>)

\* lib.rs attempt_login: success is a JSON body with a string `cookie` field.
attempt_login(our, message, signature, res) ==
    LET post == login_request(WEB2_LOGIN_ENDPOINT, our, message, signature)
        Err == LoginResult("err", None, V1(None), None, <<post>>)
    IN IF res.transport # "ok" THEN Err
       ELSE IF ~res.json THEN Err
       ELSE IF res.cookie = None THEN Err
       ELSE IF ~res.cookie[1].string THEN Err
       ELSE LoginResult("ok", Some(CookieName \o res.cookie[1].v \o CookieSuffix),
                        V1(None), None, <<post>>)

\* lib copy.rs attempt_login: success is a JSON body with an `ok` field and a
\* Set-Cookie response header; the cookie is handed to save_cookie.
attempt_login_copy(our, st, store, message, signature, res) ==
    LET post == login_request(WEB2_LOGIN_ENDPOINT_COPY, our, message, signature)
        Err == LoginResult("err", None, st, store, <<post>>)
    IN IF res.transport # "ok" THEN Err
       ELSE IF ~res.json THEN Err
       ELSE IF ~res.ok THEN Err
       ELSE IF res.set_cookie = None THEN Err
       ELSE IF ~to_str_ok(res.set_cookie[1]) THEN Err
       ELSE LET saved == save_cookie(st, res.set_cookie[1])
            IN LoginResult("ok", Some(res.set_cookie[1]), saved.self, saved.store,
                           <<post>>)

\* The three signer requests of auto_login, all carrying body_bytes as blob.
sign_request(body_bytes) ==
    Call("signer", SIGNER, "NetKeySign", None, body_bytes, SIGNER_TIMEOUT)
verify_request(our, signature, body_bytes) ==
    Call("signer", SIGNER, "NetKeyVerify", [node |-> our, signature |-> signature], body_bytes,
         SIGNER_TIMEOUT)
make_message_request(body_bytes) ==
    Call("signer", SIGNER, "NetKeyMakeMessage", None, body_bytes, SIGNER_TIMEOUT)

\* auto_login of either build: sign, verify, make-message, then attempt_login.
\* get_blob().unwrap() panics when the signer's response carries no blob; the
\* body of a signer response is never inspected.
auto_login(v, our, st, store, now, sign, verify, make, res) ==
    LET body_bytes == LoginMessage(IF v = "memory" THEN WEB2_URL ELSE WEB2_URL_COPY,
                                   now, WEB2_LOGIN_NONCE)
        c1 == <<sign_request(body_bytes)>>
        c2 == Append(c1, verify_request(our, sign.blob[1], body_bytes))
        c3 == Append(c2, make_message_request(body_bytes))
        login == IF v = "memory"
                 THEN attempt_login(our, make.blob[1], sign.blob[1], res)
                 ELSE attempt_login_copy(our, st, store, make.blob[1], sign.blob[1], res)
    IN IF sign.transport # "ok" THEN LoginResult("err", None, st, store, c1)
       ELSE IF sign.blob = None THEN LoginResult("panic", None, st, store, c1)
       ELSE IF verify.transport # "ok" THEN LoginResult("err", None, st, store, c2)
       ELSE IF make.transport # "ok" THEN LoginResult("err", None, st, store, c3)
       ELSE IF make.blob = None THEN LoginResult("panic", None, st, store, c3)
       ELSE [login EXCEPT !.self = IF v = "memory" THEN st ELSE @,
                          !.store = IF v = "memory" THEN store ELSE @,
                          !.calls = c3 \o @]

(***************************************************************************)
(* URLs: [host, segs, query].  segs is what Url::path_segments() yields:   *)
(* the path "/" is <<"">>, the path "/a/b" is <<"a", "b">>.                *)
(***************************************************************************)
Url(host, segs, query) == [host |-> host, segs |-> segs, query |-> query]

\* Url::parse of a base URL followed by a path of one segment, no query.
parse_base(host, seg) == Url(host, <<seg>>, None)

\* Mutant of replace_domain: the original's query goes along with its path.
replace_domain_with_query(original_url, new_domain) ==
    [new_domain EXCEPT !.segs = original_url.segs, !.query = original_url.query]

\* replace_domain: the parsed new_domain with its path set to the original's.
replace_domain(original_url, new_domain) ==
    [new_domain EXCEPT !.segs = original_url.segs]

\* Mutant of split_first_path_segment: the URL keeps its first segment.
split_first_path_segment_kept(url) ==
    <<IF url.segs = <<>> THEN "" ELSE Head(url.segs), url>>

\* split_first_path_segment: the first segment, and the URL with the remaining
\* segments as its path ("/" when none remain).
split_first_path_segment(url) ==
    LET first_segment == IF url.segs = <<>> THEN "" ELSE Head(url.segs)
        segments == IF url.segs = <<>> THEN <<>> ELSE Tail(url.segs)
        new_segs == IF segments = <<>> THEN <<"">> ELSE segments
    IN <<first_segment, [url EXCEPT !.segs = new_segs]>>

(***************************************************************************)
(* Text rewriting.  Texts are strings; At(s, i) is the i-th character.     *)
(***************************************************************************)
At(s, i) == SubSeq(s, i, i)

\* s[i..] begins with p.
starts_at(s, i, p) == i + Len(p) - 1 <= Len(s) /\ SubSeq(s, i, i + Len(p) - 1) = p

\* The least index from i on where s holds the character ch, 0 if none.
find_char(s, i, ch) ==
    LET ks == {k \in i..Len(s) : At(s, k) = ch}
    IN IF ks = {} THEN 0 ELSE CHOOSE k \in ks : \A j \in ks : k <= j

\* In a byte string that is not valid UTF-8, InvalidByte stands for each
\* byte that belongs to no character.
InvalidByte == "#"
ReplacementCharacter == "\\u{FFFD}"

\* String::from_utf8_lossy: invalid bytes become U+FFFD.
RECURSIVE from_utf8_lossy(_)
from_utf8_lossy(s) ==
    IF s = "" THEN ""
    ELSE (IF Head(s) = InvalidByte THEN ReplacementCharacter ELSE Head(s))
         \o from_utf8_lossy(Tail(s))

\* Where a match of url\((\/[^)]+)\) that starts at i ends, 0 if there is none:
\* "url(", a '/', at least one character other than ')', then ')'.
css_match(s, i) ==
    IF ~starts_at(s, i, "url(/") THEN 0
    ELSE IF find_char(s, i + 5, ")") = i + 5 THEN 0
    ELSE find_char(s, i + 5, ")")

\* replace_urls_css from position i: each match becomes url(/{output}{capture}).
RECURSIVE replace_urls_css_from(_, _, _)
replace_urls_css_from(s, i, output) ==
    IF i > Len(s) THEN ""
    ELSE IF css_match(s, i) = 0 THEN At(s, i) \o replace_urls_css_from(s, i + 1, output)
    ELSE "url(/" \o output \o SubSeq(s, i + 4, css_match(s, i) - 1) \o ")"
         \o replace_urls_css_from(s, css_match(s, i) + 1, output)

replace_urls_css(input, output) == replace_urls_css_from(input, 1, output)

\* replace_urls_js: each "_next/" gets the tester package's name in front;
\* `output` is not used.
RECURSIVE replace_urls_js(_, _)
replace_urls_js(input, output) ==
    IF input = "" THEN ""
    ELSE IF starts_at(input, 1, "_next/")
         THEN PACKAGE_SEGMENT \o "/" \o "_next/"
              \o replace_urls_js(SubSeq(input, 7, Len(input)), output)
    ELSE Head(input) \o replace_urls_js(Tail(input), output)

\* The file extensions replace_files looks for.
FileExtensions ==
    {"css", "js", "ttf", "woff2", "ico", "png", "svg", "jpg", "jpeg", "webp", "html"}

\* Where a match of \"/[^"]*\.(ext)[^"]*\" that starts at i ends, 0 if there
\* is none: no '"' lies between the two \" , so the match ends at the first
\* '"' after the opening one, which must follow a '\', with ".ext" in between.
files_match(s, i) ==
    LET q == find_char(s, i + 3, "\"")
    IN IF ~starts_at(s, i, "\\\"/") \/ q = 0 THEN 0
       ELSE IF At(s, q - 1) # "\\" THEN 0
       ELSE IF \E d \in i + 3..q - 2 : \E x \in FileExtensions :
                  At(s, d) = "." /\ d + Len(x) <= q - 2 /\ starts_at(s, d + 1, x)
            THEN q
       ELSE 0

\* replace_files from position i: a match \"/path\" becomes \"/{output}/path\".
RECURSIVE replace_files_from(_, _, _)
replace_files_from(s, i, output) ==
    IF i > Len(s) THEN ""
    ELSE IF files_match(s, i) = 0 THEN At(s, i) \o replace_files_from(s, i + 1, output)
    ELSE "\\\"/" \o output \o SubSeq(s, i + 2, files_match(s, i) - 2) \o "\\\""
         \o replace_files_from(s, files_match(s, i) + 1, output)

replace_files(input, output) == replace_files_from(input, 1, output)

(***************************************************************************)
(* HTML.  A body is the sequence of tokens an HTML tokenizer reads from    *)
(* its bytes: start tags with their attributes, end tags and runs of       *)
(* character data.  A body that is no HTML is one run of character data.   *)
(* "raw" is markup a rewriter put into its output; it passes through no    *)
(* content handler.                                                        *)
(***************************************************************************)
HtmlToken(kind, tag, attrs, text) == [kind |-> kind, tag |-> tag, attrs |-> attrs, text |-> text]
Attr(name, value) == [name |-> name, value |-> value]
StartTag(tag, attrs) == HtmlToken("start", tag, attrs, "")
EndTag(tag) == HtmlToken("end", tag, <<>>, "")
Chars(text) == HtmlToken("text", "", <<>>, text)
Raw(text) == HtmlToken("raw", "", <<>>, text)

\* The bytes of a body: tags are written <tag name="value" ...>.
RECURSIVE serialize_attrs(_)
serialize_attrs(attrs) ==
    IF attrs = <<>> THEN ""
    ELSE " " \o Head(attrs).name \o "=\"" \o Head(attrs).value \o "\""
         \o serialize_attrs(Tail(attrs))

RECURSIVE serialize(_)
serialize(tokens) ==
    IF tokens = <<>> THEN ""
    ELSE (CASE Head(tokens).kind = "start" ->
                 "<" \o Head(tokens).tag \o serialize_attrs(Head(tokens).attrs) \o ">"
            [] Head(tokens).kind = "end" -> "</" \o Head(tokens).tag \o ">"
            [] OTHER -> Head(tokens).text)
         \o serialize(Tail(tokens))

\* str::trim_start_matches(ch) and str::trim_matches(ch)
RECURSIVE trim_start_matches(_, _)
trim_start_matches(s, ch) ==
    IF s # "" /\ Head(s) = ch THEN trim_start_matches(Tail(s), ch) ELSE s

RECURSIVE trim_end_matches(_, _)
trim_end_matches(s, ch) ==
    IF s # "" /\ At(s, Len(s)) = ch THEN trim_end_matches(SubSeq(s, 1, Len(s) - 1), ch)
    ELSE s

trim_matches(s, ch) == trim_end_matches(trim_start_matches(s, ch), ch)

\* mother_script: the script element put at the start of <head>.
mother_script(prefix) ==
    "\n        <script>\n            const HYPERWARE_APP_PATH = '" \o prefix
    \o "';\n        </script>\n    "

\* The attributes modify_html's element handler looks at.
url_attributes == {"href", "src"}

\* The handler's new attribute value: /{prefix}/{value without leading slashes}
\* for a value that starts with '/', the value itself otherwise.
rewrite_value(value, prefix) ==
    IF starts_at(value, 1, "/")
    THEN "/" \o prefix \o "/" \o trim_start_matches(value, "/")
    ELSE value

rewrite_attrs(attrs, prefix) ==
    [i \in 1..Len(attrs) |->
        IF attrs[i].name \in url_attributes
        THEN Attr(attrs[i].name, rewrite_value(attrs[i].value, prefix))
        ELSE attrs[i]]

\* Replacement content of type Text is escaped when it is written.
RECURSIVE escape_text(_)
escape_text(s) ==
    IF s = "" THEN ""
    ELSE (CASE Head(s) = "&" -> "&amp;"
            [] Head(s) = "<" -> "&lt;"
            [] Head(s) = ">" -> "&gt;"
            [] OTHER -> Head(s))
         \o escape_text(Tail(s))

\* The three content handlers on one token; in_script says whether the token
\* lies in a script element.
rewrite_token(tok, prefix, in_script) ==
    CASE tok.kind = "start" ->
           <<[tok EXCEPT !.attrs = rewrite_attrs(@, prefix)]>>
           \o (IF tok.tag = "head" THEN <<Raw(mother_script(prefix))>> ELSE <<>>)
      [] tok.kind = "text" /\ in_script ->
           <<Chars(escape_text(replace_files(tok.text, prefix)))>>
      [] OTHER -> <<tok>>

RECURSIVE rewrite_tokens(_, _, _)
rewrite_tokens(tokens, prefix, in_script) ==
    IF tokens = <<>> THEN <<>>
    ELSE rewrite_token(Head(tokens), prefix, in_script)
         \o rewrite_tokens(Tail(tokens), prefix,
                           IF Head(tokens).kind = "start" THEN Head(tokens).tag = "script"
                           ELSE IF Head(tokens).kind = "end" THEN FALSE
                           ELSE in_script)

\* modify_html(html_bytes, prefix), when the rewriter accepts the document.
modify_html(html, prefix) == rewrite_tokens(html, trim_matches(prefix, "/"), FALSE)

(***************************************************************************)
(* Content-type dispatch of run_proxy.                                     *)
(***************************************************************************)
\* Mutant of strip_params: the parameters stay.
strip_params_kept(cs) == cs

\* Regex ";.*" replaced by "": the text before the first ';'.
RECURSIVE strip_params(_)
strip_params(cs) ==
    IF cs = <<>> \/ Head(cs) = ";" THEN <<>> ELSE <<Head(cs)>> \o strip_params(Tail(cs))

ApplicationJavascript ==
    <<"a", "p", "p", "l", "i", "c", "a", "t", "i", "o", "n", "/", "j", "a", "v", "a", "s", "c", "r", "i", "p", "t">>
ApplicationOctetStream ==
    <<"a", "p", "p", "l", "i", "c", "a", "t", "i", "o", "n", "/", "o", "c", "t", "e", "t", "-", "s", "t", "r", "e", "a", "m">>
TextHtml == <<"t", "e", "x", "t", "/", "h", "t", "m", "l">>

\* match resheaders.get("content-type"): the header's text, "text/html" when
\* the response has no such header.
content_type_of(header) == IF header = None THEN TextHtml ELSE header[1]

\* match mime.as_str(): the rewriter applied to the body.
rewriter_for(mime) ==
    CASE mime = TextHtml -> "modify_html"
      [] mime = <<"t", "e", "x", "t", "/", "c", "s", "s">> -> "replace_urls_css"
      [] mime = ApplicationJavascript -> "replace_urls_js"
      [] mime = ApplicationOctetStream -> "replace_urls_js"
      [] OTHER -> "none"

\* HeaderValue::from_str: Err on a control character.
from_str_ok(cs) == \A i \in 1..Len(cs) : cs[i] # CtlByte

\* Mutant of upstream_request: the client's Host header goes along.
upstream_request_with_host(method, url, c, body) ==
    Call("upstream", url, method, ("Cookie" :> c) @@ ("Host" :> "localhost:8080"), body,
         PROXY_TIMEOUT)

\* The upstream request of run_proxy: a single Cookie header.
upstream_request(method, url, c, body) ==
    Call("upstream", url, method, "Cookie" :> c, body, PROXY_TIMEOUT)

\* The headers run_proxy hands to send_response: a fresh map holding the
\* content type; resheaders (with the inserted set-cookie) is not passed on.
client_headers(resheaders, content_type) == "Content-type" :> content_type

\* run_proxy(request, web2_url, cookie) against the upstream's answer `up`.
\* Returns [result, calls, responses].  The response's `rewriter` names the
\* match arm that produced its body.
run_proxy(request, web2_url, c, up) ==
    LET url0 == replace_domain(request.url[1], parse_base(web2_url, PACKAGE_SEGMENT))
        split == split_first_path_segment(url0)
        first_path_segment == split[1]
        call == upstream_request(request.method[1], split[2], c, request.blob[1])
        resheaders == [up.headers EXCEPT !.set_cookie = Some(c)]
        content_type == content_type_of(resheaders.content_type)
        mime == strip_params(content_type)
        rewriter == rewriter_for(mime)
        text == from_utf8_lossy(serialize(up.body))
        body == CASE rewriter = "modify_html" -> modify_html(up.body, first_path_segment)
                  [] rewriter = "replace_urls_css" ->
                       <<Chars(replace_urls_css(text, first_path_segment))>>
                  [] rewriter = "replace_urls_js" ->
                       <<Chars(replace_urls_js(text, first_path_segment))>>
                  [] OTHER -> up.body
        Ret(result, calls, responses) ==
            [result |-> result, calls |-> calls, responses |-> responses]
    IN IF request.blob = None THEN Ret("panic", <<>>, <<>>)
       ELSE IF request.url = None THEN Ret("err", <<>>, <<>>)
       ELSE IF request.method = None THEN Ret("err", <<>>, <<>>)
       ELSE IF up.transport # "ok" THEN Ret("err", <<call>>, <<>>)
       ELSE IF ~from_str_ok(c) THEN Ret("err", <<call>>, <<>>)
       ELSE IF up.headers.content_type # None /\ ~to_str_ok(up.headers.content_type[1])
            THEN Ret("err", <<call>>, <<>>)
       ELSE IF rewriter = "modify_html" /\ ~up.rewritable THEN Ret("err", <<call>>, <<>>)
       ELSE Ret("ok", <<call>>,
                <<HttpResponse(up.status, client_headers(resheaders, content_type),
                               "upstream", [name |-> rewriter, prefix |-> first_path_segment],
                               body)>>)

(***************************************************************************)
(* The request handlers.                                                   *)
(***************************************************************************)
\* What a handler did: its Result ("ok", "err", or "panic" when an unwrap
\* aborts the process), the Session State it leaves, the external calls it
\* issued in order, and the HTTP responses it sent; `value` is what auto_login
\* returned, when it ran.
Outcome(path, result, value, c, st, store, calls, responses) ==
    [path |-> path, result |-> result, value |-> value, cookie |-> c, state |-> st,
     store |-> store, calls |-> calls, responses |-> responses]

RefreshPage == "meta-refresh"

\* lib.rs send_refresh_response(delay_seconds, cookie): 302 with Set-Cookie.
send_refresh_response(delay_seconds, c) ==
    HttpResponse(302, ("Content-Type" :> TextHtml) @@ ("Set-Cookie" :> c),
                 RefreshPage, [name |-> "none", prefix |-> ""], None)

\* lib copy.rs send_refresh_response(delay_seconds): 200, no cookie header.
send_refresh_response_copy(delay_seconds) ==
    HttpResponse(200, "Content-Type" :> TextHtml,
                 RefreshPage, [name |-> "none", prefix |-> ""], None)

\* The cookie handle_page_request stores after auto_login returned Ok(value).
cookie_after_login(old, value) == value

\* Mutant of handle_page_request: the request is proxied right after a
\* successful login.
handle_page_request_then_proxy(our, request, c, st, store, in) ==
    IF c # None
    THEN LET r == run_proxy(request, WEB2_URL, c[1], in.up)
         IN Outcome("proxy", r.result, None, c, st, store, r.calls, r.responses)
    ELSE LET l == auto_login("memory", our, st, store, in.now, in.sign, in.verify,
                             in.make, in.login)
             r == run_proxy([method |-> Some("GET"), url |-> Some(Url("", <<"">>, None)),
                             blob |-> Some(Text(""))], WEB2_URL, l.value[1], in.up)
         IN IF l.result # "ok"
            THEN Outcome("login", l.result, l.value, c, st, store, l.calls, <<>>)
            ELSE Outcome("login", r.result, l.value, l.value, st, store,
                         l.calls \o r.calls, r.responses)

\* Mutant of cookie_present: a failed forward is sent a second time.
cookie_present_retrying(c, st, store, r) ==
    Outcome("proxy", r.result, None, c, st, store,
            IF r.result = "err" THEN r.calls \o r.calls ELSE r.calls, r.responses)

\* Mutant of cookie_present: a failed forward drops the session.
cookie_present_forgetful(c, st, store, r) ==
    Outcome("proxy", r.result, None, IF r.result = "ok" THEN c ELSE None,
            IF r.result = "ok" THEN st ELSE V1(None), store, r.calls, r.responses)

\* The Some(cookie) arm of handle_page_request: what run_proxy returned, r, is
\* the handler's result; Session State is left alone.
cookie_present(c, st, store, r) ==
    Outcome("proxy", r.result, None, c, st, store, r.calls, r.responses)

\* Mutant of cookie_absent: a successful login sends no refresh page.
cookie_absent_silent(c, st, store, l) ==
    IF l.result # "ok"
    THEN Outcome("login", l.result, l.value, c, st, store, l.calls, <<>>)
    ELSE Outcome("login", "ok", l.value, cookie_after_login(c, l.value), st, store,
                 l.calls, <<>>)

\* The None arm of lib.rs handle_page_request once auto_login returned l: `?`
\* leaves on Err, the cookie is stored, cookie.clone().unwrap() feeds the
\* refresh page.
cookie_absent(c, st, store, l) ==
    LET new_cookie == cookie_after_login(c, l.value)
    IN IF l.result # "ok"
       THEN Outcome("login", l.result, l.value, c, st, store, l.calls, <<>>)
       ELSE IF new_cookie = None
            THEN Outcome("login", "panic", l.value, new_cookie, st, store, l.calls, <<>>)
       ELSE Outcome("login", "ok", l.value, new_cookie, st, store, l.calls,
                    <<send_refresh_response(1, new_cookie[1])>>)

\* The None arm of lib copy.rs handle_page_request once auto_login returned l:
\* the cookie auto_login returns is dropped.
cookie_absent_copy(c, l) ==
    IF l.result # "ok"
    THEN Outcome("login", l.result, l.value, c, l.self, l.store, l.calls, <<>>)
    ELSE Outcome("login", "ok", l.value, c, l.self, l.store, l.calls,
                 <<send_refresh_response_copy(1)>>)

\* lib.rs handle_page_request: match cookie.
handle_page_request(our, request, c, st, store, in) ==
    IF c # None
    THEN cookie_present(c, st, store, run_proxy(request, WEB2_URL, c[1], in.up))
    ELSE cookie_absent(c, st, store,
                       auto_login("memory", our, st, store, in.now, in.sign, in.verify,
                                  in.make, in.login))

\* lib copy.rs handle_page_request: match state.get_cookie().
handle_page_request_copy(our, request, c, st, store, in) ==
    IF get_cookie(st) # None
    THEN cookie_present(c, st, store,
                        run_proxy(request, WEB2_URL_COPY, get_cookie(st)[1], in.up))
    ELSE cookie_absent_copy(c, auto_login("persisted", our, st, store, in.now, in.sign,
                                          in.verify, in.make, in.login))

\* handle_request of either build: only requests of the HTTP server are
\* looked at; parse_request(body).unwrap() panics on a body it cannot parse.
handle_request(v, our, m, request, c, st, store, in) ==
    IF m.process # HTTP_SERVER THEN Outcome("ignored", "ok", None, c, st, store, <<>>, <<>>)
    ELSE IF m.body = "unparsable" THEN Outcome("parse", "panic", None, c, st, store, <<>>, <<>>)
    ELSE IF m.body = "http"
         THEN IF v = "memory" THEN handle_page_request(our, request, c, st, store, in)
              ELSE handle_page_request_copy(our, request, c, st, store, in)
    ELSE Outcome("ignored", "ok", None, c, st, store, <<>>, <<>>)

\* Mutant of main_loop: requests of other nodes are handled as well.
main_loop_any_node(v, our, m, request, c, st, store, in) ==
    IF m.kind = "request" THEN handle_request(v, our, m, request, c, st, store, in)
    ELSE Outcome("ignored", "ok", None, c, st, store, <<>>, <<>>)

\* One turn of main_loop on the message await_message returned.
main_loop(v, our, m, request, c, st, store, in) ==
    IF m.kind = "send_error" THEN Outcome("ignored", "ok", None, c, st, store, <<>>, <<>>)
    ELSE IF m.kind = "request"
         THEN IF m.node # our THEN Outcome("ignored", "ok", None, c, st, store, <<>>, <<>>)
              ELSE handle_request(v, our, m, request, c, st, store, in)
    ELSE Outcome("ignored", "ok", None, c, st, store, <<>>, <<>>)

\* initialize of either build, given what the state store holds.
initialize(v, store) ==
    IF v = "memory" THEN [cookie |-> None, state |-> V1(None), store |-> store]
    ELSE LET st == load(store)
             wiped == wipe_cookie(st)
         IN [cookie |-> None, state |-> wiped.self, store |-> wiped.store]

(***************************************************************************)
(* Inputs: the messages await_message can return, the HTTP requests the    *)
(* server can hand over, and the answers of the collaborators.             *)
(***************************************************************************)
Message(kind, node, process, body) ==
    [kind |-> kind, node |-> node, process |-> process, body |-> body]

HttpRequestMessage == Message("request", OUR, HTTP_SERVER, "http")
UnparsableMessage == Message("request", OUR, HTTP_SERVER, "unparsable")
WebSocketMessage == Message("request", OUR, HTTP_SERVER, "ws")

\* Every shape of message main_loop tells apart.
Messages ==
    {Message("send_error", OUR, "none", "none"),
     Message("response", OUR, SIGNER, "none"),
     Message("request", "bob.os", HTTP_SERVER, "http"),
     Message("request", OUR, "terminal:terminal:sys", "other"),
     UnparsableMessage, WebSocketMessage, HttpRequestMessage}

\* The requests of the memedeck-test process: Send comes from the test process
\* of this node, History from another node.
TEST_PROCESS == "memedeck-test:memedeck-test:template.os"
SendMessage == Message("request", OUR, TEST_PROCESS, "Send")
HistoryMessage == Message("request", "bob.os", TEST_PROCESS, "History")

\* The messages of the HTTP server on this node.
ServerMessages == {UnparsableMessage, WebSocketMessage, HttpRequestMessage}

LocalHost == "http://localhost:8080"
HomeUrl == Url(LocalHost, <<PACKAGE_SEGMENT, "home">>, None)
RootUrl == Url(LocalHost, <<"">>, Some("q=1"))
EmptyBody == Text("")

\* The headers a browser sends along.
ClientHeaders ==
    ("host" :> "localhost:8080") @@ ("cookie" :> "client=1") @@ ("accept" :> "*/*")

\* IncomingHttpRequest with its blob: method() and url() are Results.
Request(method, url, blob) ==
    [method |-> method, url |-> url, blob |-> blob, headers |-> ClientHeaders]
NoRequest == Request(None, None, None)

Requests ==
    {Request(Some("GET"), Some(HomeUrl), Some(EmptyBody)),
     Request(Some("POST"), Some(RootUrl), Some(Text("form"))),
     Request(Some("GET"), Some(HomeUrl), None),
     Request(Some("GET"), None, Some(EmptyBody)),
     Request(None, Some(HomeUrl), Some(EmptyBody))}

TextCss == <<"t", "e", "x", "t", "/", "c", "s", "s", ";", " ", "c", "h", "a", "r", "s", "e", "t", "=", "u", "t", "f", "-", "8">>

ContentTypes ==
    {TextHtml, TextCss, ApplicationJavascript, ApplicationOctetStream,
     <<"i", "m", "a", "g", "e", "/", "p", "n", "g">>,
     <<"t", "e", "x", "t", "/", "c", "s", "s", " ", ";", "q", "=", "1">>,
     <<"t", HighByte>>}

UpstreamSetCookie == <<"f", "o", "o", "=", "b", "a", "r">>
Page == <<StartTag("a", <<Attr("href", "/x")>>), Chars("x"), EndTag("a")>>

Headers(content_type, set_cookie) ==
    [content_type |-> content_type, set_cookie |-> set_cookie]

UpstreamReply(transport, status, headers, body, rewritable) ==
    [transport |-> transport, status |-> status, headers |-> headers, body |-> body,
     rewritable |-> rewritable]

UpstreamFailure == UpstreamReply("error", 0, Headers(None, None), <<>>, TRUE)

UpstreamReplies ==
    {UpstreamFailure}
    \cup {UpstreamReply("ok", s, Headers(ct, sc), Page, TRUE) :
            s \in {200, 404},
            ct \in {None} \cup {Some(x) : x \in ContentTypes},
            sc \in {None, Some(UpstreamSetCookie)}}
    \cup {UpstreamReply("ok", 200, Headers(ct, None), Page, FALSE) :
            ct \in {None, Some(TextHtml)}}

\* Upstream answers that differ in how run_proxy ends.
FewUpstreamReplies ==
    {UpstreamFailure,
     UpstreamReply("ok", 200, Headers(Some(TextHtml), None), Page, TRUE),
     UpstreamReply("ok", 404, Headers(Some(TextCss), Some(UpstreamSetCookie)), Page, TRUE),
     UpstreamReply("ok", 200, Headers(None, None), Page, FALSE)}

\* The collaborators' answers one handler run consumes.
Inputs(now, sign, verify, make, login, up) ==
    [now |-> now, sign |-> sign, verify |-> verify, make |-> make, login |-> login,
     up |-> up]

Unasked == [transport |-> "timeout", reports |-> "none", blob |-> None]
UnaskedLogin == [transport |-> "error", json |-> FALSE, ok |-> FALSE, cookie |-> None,
                 set_cookie |-> None]
NoInputs == Inputs(0, Unasked, Unasked, Unasked, UnaskedLogin, UpstreamFailure)

Proceeds(reply, needs_blob) ==
    reply.transport = "ok" /\ (needs_blob => reply.blob # None)

\* Answers to a login handshake drawn from the given sets: a collaborator that
\* is never asked (an earlier step failed) gives no answer.
LoginInputsOf(T, S, V, M, L) ==
    {Inputs(t, s, Unasked, Unasked, UnaskedLogin, UpstreamFailure) :
        t \in T, s \in {x \in S : ~Proceeds(x, TRUE)}}
    \cup {Inputs(t, s, v, Unasked, UnaskedLogin, UpstreamFailure) :
        t \in T, s \in {x \in S : Proceeds(x, TRUE)},
        v \in {x \in V : ~Proceeds(x, FALSE)}}
    \cup {Inputs(t, s, v, m, UnaskedLogin, UpstreamFailure) :
        t \in T, s \in {x \in S : Proceeds(x, TRUE)},
        v \in {x \in V : Proceeds(x, FALSE)},
        m \in {x \in M : ~Proceeds(x, TRUE)}}
    \cup {Inputs(t, s, v, m, l, UpstreamFailure) :
        t \in T, s \in {x \in S : Proceeds(x, TRUE)},
        v \in {x \in V : Proceeds(x, FALSE)},
        m \in {x \in M : Proceeds(x, TRUE)},
        l \in L}

ProxyInputsOf(U) ==
    {Inputs(0, Unasked, Unasked, Unasked, UnaskedLogin, u) : u \in U}

\* A request run_proxy gives up on before it asks the upstream.
Unsendable(request) ==
    request.blob = None \/ request.url = None \/ request.method = None

\* Requests paired with the upstream's answers: an upstream that is never
\* asked gives no answer.
ProxyTurns(requests, U) ==
    {<<r, i>> \in requests \X ProxyInputsOf(U) :
        Unsendable(r) => i.up = UpstreamFailure}

\* Signer answers whose `reports` the code never reads: one per outcome.
Answered(replies) == {x \in replies : x.reports # "error"}

\* Login answers, one or two for each way attempt_login can end.
FewLoginReplies ==
    {l \in LoginReplies :
        /\ l.cookie = Some(JsonString(CtlToken)) => (~l.ok /\ l.set_cookie = None)
        /\ l.set_cookie = Some(OpaqueSetCookie) => (l.ok /\ l.cookie = None)}

LoginInputs ==
    {NoRequest} \X LoginInputsOf({1700000000}, Answered(SignReplies), VerifyReplies,
                  Answered(MakeMessageReplies), FewLoginReplies)

\* One successful and one failing handshake, for runs that study the proxy.
FewLoginInputs ==
    {NoRequest} \X LoginInputsOf({1700000000}, {x \in Answered(SignReplies) : x.blob # None},
                  {x \in Answered(VerifyReplies) : x.transport = "ok"},
                  {x \in Answered(MakeMessageReplies) : x.blob = Some(CanonicalText)},
                  {l \in FewLoginReplies :
                      /\ l.json => (l.ok /\ l.cookie \in {Some(JsonString(Token)),
                                                          Some(JsonString(CtlToken))}
                                         /\ l.set_cookie = Some(SessionCookie))
                      /\ l.transport = "ok"})

FewProxyTurns == ProxyTurns(Requests, FewUpstreamReplies)
AllProxyTurns == ProxyTurns(Requests, UpstreamReplies)

\* Requests that differ in their first path segment: the tester package's
\* name, PACKAGE_PATH of lib.rs, another name, and none; the last differs from
\* the first in its query only.
RewriteRequests ==
    {Request(Some("GET"), Some(HomeUrl), Some(EmptyBody)),
     Request(Some("GET"), Some(Url(LocalHost, <<"app:memedeck:meme-deck.os", "a.js">>, None)),
             Some(EmptyBody)),
     Request(Some("GET"), Some(Url(LocalHost, <<"p", "a", "b.css">>, None)), Some(EmptyBody)),
     Request(Some("GET"), Some(RootUrl), Some(EmptyBody)),
     Request(Some("GET"), Some([HomeUrl EXCEPT !.query = Some("page=2")]), Some(EmptyBody))}

\* Bodies an upstream can answer with: HTML documents, style sheets, scripts.
HtmlDocuments ==
    {<<StartTag("html", <<>>), StartTag("head", <<>>),
       StartTag("link", <<Attr("rel", "stylesheet"), Attr("href", "/a/b.css")>>),
       EndTag("head"), StartTag("img", <<Attr("src", "x.png")>>), EndTag("html")>>,
     <<StartTag("script", <<Attr("src", "//cdn.example.com/x.js")>>), EndTag("script")>>,
     <<StartTag("a", <<Attr("href", "/")>>), Chars("home"), EndTag("a"),
       StartTag("script", <<>>), Chars("f(\\\"/s/a.js\\\");1<2"), EndTag("script")>>,
     <<StartTag("a", <<Attr("href", "https://example.com/")>>), Chars("out"), EndTag("a")>>}

StyleSheets ==
    {<<Chars("a{b:url(/x/y.png)}")>>,
     <<Chars("a{b:url(/)}")>>,
     <<Chars("a{b:url(x.png)}c{d:url(\"/q.png\")}")>>,
     <<Chars("url(/a)url(/b" \o InvalidByte \o ")")>>}

Scripts ==
    {<<Chars("import(\"/_next/static/a.js\");_next/")>>,
     <<Chars("var x=1;")>>}

ImagePng == <<"i", "m", "a", "g", "e", "/", "p", "n", "g">>

\* Each body under the content types it is served with, and some under others.
RewriteReplies ==
    {UpstreamReply("ok", 200, Headers(ct, None), d, TRUE) :
        ct \in {None, Some(TextHtml)}, d \in HtmlDocuments}
    \cup {UpstreamReply("ok", 200, Headers(Some(TextCss), None), d, TRUE) :
            d \in StyleSheets \cup {Page}}
    \cup {UpstreamReply("ok", 200, Headers(Some(ct), None), d, TRUE) :
            ct \in {ApplicationJavascript, ApplicationOctetStream}, d \in Scripts}
    \cup {UpstreamReply("ok", 200, Headers(Some(ImagePng), None), d, TRUE) :
            d \in {Page, <<Chars("url(/a)_next/")>>}}

RewriteTurns == ProxyTurns(RewriteRequests, RewriteReplies)

(***************************************************************************)
(* The state machine.                                                      *)
(***************************************************************************)
\* Session State: the cookie the next handle_page_request will find.
SessionState == IF variant = "memory" THEN cookie ELSE get_cookie(state)

IsHttp(m) == m.kind = "request" /\ m.node = OUR /\ m.process = HTTP_SERVER /\ m.body = "http"

\* `last` records the latest turn of main_loop: the message, whether Session
\* State was absent when the message was queued and what it was when the
\* handler started, the request run_proxy read, and what the handler did.
\* `prev` sums up the HTTP request handled before that one in the same run.
NoPrev == [path |-> "none", result |-> "ok", absent |-> FALSE, value |-> None,
           signs |-> 0]

\* The calls of one service among a handler's calls.
CallsTo(calls, service) == {i \in 1..Len(calls) : calls[i].service = service}
SignCalls(calls) == {i \in 1..Len(calls) : calls[i].kind = "NetKeySign"}

Idle == [message |-> Message("none", OUR, "none", "none"), absent |-> FALSE,
         request |-> NoRequest, in |-> NoInputs, before |-> None, stored |-> None,
         path |-> "none", result |-> "ok", value |-> None, calls |-> <<>>,
         responses |-> <<>>, prev |-> NoPrev]

Init ==
    /\ variant \in Variants
    /\ running = TRUE
    /\ LET s == initialize(variant, None)
       IN cookie = s.cookie /\ state = s.state /\ persisted = s.store
    /\ inbox = <<>>
    /\ last = Idle

\* A message reaches the process's queue; `absent` notes whether Session State
\* was absent at that moment.
Deliver(msgs) ==
    /\ running
    /\ Len(inbox) < MaxInbox
    /\ \E m \in msgs :
         inbox' = Append(inbox, [message |-> m, absent |-> IsHttp(m) /\ SessionState = None])
    /\ UNCHANGED <<variant, running, cookie, state, persisted, last>>

\* main_loop takes the next message and handles it to completion.  The
\* request's content is drawn when run_proxy reads it; the login path never
\* reads it.
Receive(logins, proxies) ==
    /\ running
    /\ inbox # <<>>
    /\ LET m == Head(inbox).message
           before == SessionState
       IN \E turn \in (IF ~IsHttp(m) THEN {<<NoRequest, NoInputs>>}
                       ELSE IF before = None THEN logins ELSE proxies) :
          \E o \in {main_loop(variant, OUR, m, turn[1], cookie, state, persisted, turn[2])} :
            LET request == turn[1]
                in == turn[2]
            IN /\ cookie' = o.cookie
               /\ state' = o.state
               /\ persisted' = o.store
               /\ running' = (o.result # "panic")
               /\ last' = [message |-> m, absent |-> Head(inbox).absent,
                           request |-> request, in |-> in, before |-> before,
                           stored |-> persisted,
                           path |-> o.path, result |-> o.result, value |-> o.value,
                           calls |-> o.calls, responses |-> o.responses,
                           prev |-> IF IsHttp(last.message)
                                    THEN [path |-> last.path, result |-> last.result,
                                          absent |-> last.absent, value |-> last.value,
                                          signs |-> Cardinality(SignCalls(last.calls))]
                                    ELSE last.prev]
    /\ inbox' = Tail(inbox)
    /\ UNCHANGED variant

\* The runtime starts the process again: initialize runs, the state store
\* is what the previous run left, queued messages are gone.
Restart ==
    /\ LET s == initialize(variant, persisted)
       IN cookie' = s.cookie /\ state' = s.state /\ persisted' = s.store
    /\ running' = TRUE
    /\ inbox' = <<>>
    /\ last' = Idle
    /\ UNCHANGED variant

\* The request loop under the HTTP server's traffic.
Next ==
    \/ Deliver(ServerMessages)
    \/ Receive(LoginInputs, FewProxyTurns)
    \/ Restart

Spec == Init /\ [][Next]_vars

\* The proxy under every upstream answer, HTTP requests only.
NextProxy ==
    \/ Deliver({HttpRequestMessage})
    \/ Receive(FewLoginInputs, AllProxyTurns)
    \/ Restart

SpecProxy == Init /\ [][NextProxy]_vars

\* The rewriters under requests of several mount paths and upstream bodies of
\* every kind.
NextRewrite ==
    \/ Deliver({HttpRequestMessage})
    \/ Receive(FewLoginInputs, RewriteTurns)
    \/ Restart

SpecRewrite == Init /\ [][NextRewrite]_vars

\* The request loop under every kind of message.
NextEvents ==
    \/ Deliver(Messages \cup {SendMessage, HistoryMessage})
    \/ Receive(FewLoginInputs, FewProxyTurns)
    \/ Restart

SpecEvents == Init /\ [][NextEvents]_vars

(***************************************************************************)
(* Claims C1 to C10.                                                       *)
(***************************************************************************)
Handled == IsHttp(last.message)
Present == last.before # None
Signer(calls) == Cardinality(CallsTo(calls, "signer"))
Posts(calls) == Cardinality(CallsTo(calls, "login"))
Upstream(calls) == Cardinality(CallsTo(calls, "upstream"))

\* The step of the handshake that fails under the collaborators' answers:
\* a transport failure of a signer request or of the POST, a body that is not
\* JSON, a JSON body with neither `ok` nor `cookie`; "crash" when a signer
\* response carries no blob; "none" otherwise.
LoginFault(in) ==
    CASE in.sign.transport # "ok" -> "sign"
      [] in.sign.transport = "ok" /\ in.sign.blob = None -> "crash"
      [] Proceeds(in.sign, TRUE) /\ in.verify.transport # "ok" -> "verify"
      [] Proceeds(in.sign, TRUE) /\ Proceeds(in.verify, FALSE)
         /\ in.make.transport # "ok" -> "make-message"
      [] Proceeds(in.sign, TRUE) /\ Proceeds(in.verify, FALSE)
         /\ in.make.transport = "ok" /\ in.make.blob = None -> "crash"
      [] OTHER -> IF in.login.transport # "ok" THEN "post"
                  ELSE IF ~in.login.json THEN "json"
                  ELSE IF ~in.login.ok /\ in.login.cookie = None THEN "neither"
                  ELSE "none"

FailedSteps == {"sign", "verify", "make-message", "post", "json", "neither"}

\* C1: after a successful login Session State holds the returned cookie, and
\* the next HTTP request of the same run is proxied with that cookie, without
\* any signer call.
C1_SessionHoldsReturnedCookie ==
    /\ (last.path = "login" /\ last.result = "ok") => SessionState = last.value
    /\ (Handled /\ last.prev.path = "login" /\ last.prev.result = "ok")
         => /\ last.path = "proxy"
            /\ last.before = last.prev.value
            /\ Signer(last.calls) = 0

\* C2: of two HTTP requests that both arrived while Session State was absent,
\* handled one after the other with every collaborator answering
\* successfully, exactly one causes a sign request.
C2_OneSignForTwoArrivals ==
    (/\ Handled /\ last.absent
     /\ last.prev.path = "login" /\ last.prev.absent /\ last.prev.result = "ok"
     /\ last.result = "ok")
        => last.prev.signs + Cardinality(SignCalls(last.calls)) = 1

\* C3: a login attempt that fails at sign, verify, make-message, the POST's
\* transport, a malformed JSON body or a body with neither `ok` nor `cookie`
\* returns an error and leaves Session State absent and the stored record
\* untouched; the next HTTP request starts again with a sign request built
\* from nothing but the current time.
C3_FailedLoginLeavesSessionAbsent ==
    /\ (last.path = "login" /\ LoginFault(last.in) \in FailedSteps)
         => /\ last.result = "err"
            /\ last.before = None
            /\ SessionState = None
            /\ persisted = last.stored
    /\ (Handled /\ last.prev.path = "login" /\ last.prev.result = "err")
         => /\ last.path = "login"
            /\ last.calls # <<>>
            /\ last.calls[1] =
                 sign_request(LoginMessage(IF variant = "memory" THEN WEB2_URL
                                           ELSE WEB2_URL_COPY,
                                           last.in.now, WEB2_LOGIN_NONCE))

\* C3 witness: a handshake that fails at its last step, right after a failed one.
C3_Witness ==
    /\ Handled /\ last.path = "login" /\ LoginFault(last.in) = "neither"
    /\ last.prev.path = "login" /\ last.prev.result = "err"
    /\ Len(last.calls) = 4

\* C4: an HTTP request that finds Session State absent is answered with the
\* refresh page, whether the login succeeds or fails.
C4_RefreshPageAlways ==
    (Handled /\ ~Present)
        => /\ Len(last.responses) = 1
           /\ last.responses[1].page = RefreshPage

\* C5 as stated: with a cookie present the request is forwarded upstream and no
\* signer or login call is made; with none the handshake runs and nothing is
\* sent upstream.
C5_OnePathOriginal ==
    Handled =>
        IF Present
        THEN Upstream(last.calls) = 1 /\ Signer(last.calls) = 0 /\ Posts(last.calls) = 0
        ELSE Signer(last.calls) >= 1 /\ Upstream(last.calls) = 0

\* C5 amended: with a cookie present run_proxy handles the request, makes no
\* signer or login call, and forwards the request upstream exactly once unless
\* the request has no blob or its URL or method does not parse, when nothing is
\* forwarded; with none the handshake runs from its sign request and nothing is
\* sent upstream.
C5_OnePath ==
    Handled =>
        IF Present
        THEN /\ last.path = "proxy"
             /\ Signer(last.calls) = 0 /\ Posts(last.calls) = 0
             /\ Upstream(last.calls) = IF Unsendable(last.request) THEN 0 ELSE 1
        ELSE /\ last.path = "login"
             /\ last.calls # <<>> /\ last.calls[1].kind = "NetKeySign"
             /\ Upstream(last.calls) = 0

\* C5 witness: a request with a cookie present whose URL does not parse.
C5_Witness ==
    /\ Handled /\ Present /\ last.request.url = None /\ last.request.blob # None
    /\ last.path = "proxy" /\ last.calls = <<>>

\* C6: after every process start Session State is absent, and the first HTTP
\* request of the run goes through the login handshake.
C6_AbsentAfterStart ==
    /\ last = Idle => SessionState = None
    /\ (Handled /\ last.prev.path = "none") => last.path = "login"

\* C7: the response of a successfully proxied request carries a Set-Cookie
\* header equal to the session cookie.
C7_SetCookieOverwritten ==
    (last.path = "proxy" /\ last.result = "ok")
        => \E k \in DOMAIN last.responses[1].headers :
              /\ k \in {"Set-Cookie", "set-cookie"}
              /\ last.responses[1].headers[k] = last.before[1]

\* C8: no message ends the request loop: after any handled message main_loop
\* is still running.
C8_LoopSurvives ==
    last.path \in {"ignored", "parse", "login", "proxy"} => running

\* The login POST was sent and answered with a JSON body.
Classified ==
    /\ last.path = "login" /\ Posts(last.calls) = 1
    /\ last.in.login.transport = "ok" /\ last.in.login.json

Synthesized(v) == "hyperware_token=" \o Str(v) \o "; path=/;"

\* C9 as stated: `ok` gives the Set-Cookie header's cookie; no `ok` but a
\* `cookie` string gives hyperware_token=<value>; path=/; ; neither is a failure.
C9_ClassificationOriginal ==
    Classified =>
        LET l == last.in.login
        IN /\ (l.ok /\ l.set_cookie # None /\ to_str_ok(l.set_cookie[1]))
                => (last.result = "ok" /\ last.value = l.set_cookie)
           /\ (~l.ok /\ l.cookie # None /\ l.cookie[1].string)
                => (last.result = "ok" /\ last.value # None
                    /\ Str(last.value[1]) = Synthesized(l.cookie[1].v))
           /\ (~l.ok /\ l.cookie = None) => last.result = "err"

\* C9 amended: each build knows one shape.  lib.rs: a string `cookie` field
\* gives hyperware_token=<value>; path=/; with or without `ok`, and a body
\* without a string `cookie` is a failure even with `ok`.  lib copy.rs: `ok`
\* gives the cookie of the Set-Cookie header (a failure when the header is
\* missing or unreadable), and a body without `ok` is a failure even with
\* `cookie`.  A body with neither field is a failure in both.
C9_Classification ==
    Classified =>
        LET l == last.in.login
        IN IF variant = "memory"
           THEN /\ (l.cookie # None /\ l.cookie[1].string)
                     => (last.result = "ok" /\ last.value # None
                         /\ Str(last.value[1]) = Synthesized(l.cookie[1].v))
                /\ ~(l.cookie # None /\ l.cookie[1].string) => last.result = "err"
           ELSE /\ (l.ok /\ l.set_cookie # None /\ to_str_ok(l.set_cookie[1]))
                     => (last.result = "ok" /\ last.value = l.set_cookie)
                /\ ~(l.ok /\ l.set_cookie # None /\ to_str_ok(l.set_cookie[1]))
                     => last.result = "err"

\* C9 witness: lib.rs meets `ok` with a Set-Cookie header and no `cookie`.
C9_Witness ==
    /\ Classified /\ variant = "memory"
    /\ last.in.login.ok /\ last.in.login.cookie = None
    /\ last.in.login.set_cookie = Some(SessionCookie)
    /\ last.result = "err"

\* The text before the first ';' of a content type, "text/html" for none.
MimeOf(header) ==
    IF header = None THEN "text/html"
    ELSE LET cs == header[1]
             semis == {i \in 1..Len(cs) : cs[i] = ";"}
             cut == IF semis = {} THEN Len(cs) + 1
                    ELSE CHOOSE i \in semis : \A j \in semis : i <= j
         IN Str(SubSeq(cs, 1, cut - 1))

\* C10: the rewriter applied is chosen from the content type without its
\* parameters: text/html the HTML rewriter, text/css the CSS rewriter,
\* application/javascript and application/octet-stream the JS rewriter, any
\* other type none; a missing content type counts as text/html.
C10_Dispatch ==
    (last.path = "proxy" /\ last.result = "ok")
        => LET mime == MimeOf(last.in.up.headers.content_type)
               applied == last.responses[1].rewriter.name
           IN /\ mime = "text/html" <=> applied = "modify_html"
              /\ mime = "text/css" <=> applied = "replace_urls_css"
              /\ mime \in {"application/javascript", "application/octet-stream"}
                   <=> applied = "replace_urls_js"
              /\ mime \notin {"text/html", "text/css", "application/javascript",
                              "application/octet-stream"}
                   <=> (applied = "none" /\ last.responses[1].body = last.in.up.body)

\* C10 witness: text/css; charset=utf-8 reaches the CSS rewriter.
C10_Witness ==
    /\ last.path = "proxy" /\ last.result = "ok"
    /\ last.in.up.headers.content_type = Some(TextCss)
    /\ last.responses[1].rewriter.name = "replace_urls_css"

(***************************************************************************)
(* Claims C11 to C20.                                                      *)
(***************************************************************************)
\* C11: within one run of the process, a step taken while Session State holds
\* a cookie leaves that cookie and the stored record as they are, whether the
\* forward succeeds or fails, and an HTTP request handled by the step is
\* proxied.
C11_ProxyKeepsSession ==
    [][Restart \/ (SessionState # None
                    => /\ SessionState' = SessionState
                       /\ persisted' = persisted
                       /\ (inbox # <<>> /\ inbox' = Tail(inbox) /\ IsHttp(Head(inbox).message))
                            => last'.path = "proxy")]_vars

\* C11 witness: a forward that failed right after another forward, the cookie
\* still held.
C11_Witness ==
    /\ Handled /\ Present /\ last.path = "proxy" /\ last.result = "err"
    /\ last.prev.path = "proxy"
    /\ SessionState = last.before

\* C12: every upstream request of run_proxy has exactly one header, Cookie,
\* holding the session cookie, and the method and body of the incoming request.
C12_OnlyCookieForwarded ==
    (Handled /\ last.path = "proxy")
        => \A i \in CallsTo(last.calls, "upstream") :
              /\ DOMAIN last.calls[i].arg = {"Cookie"}
              /\ last.calls[i].arg["Cookie"] = last.before[1]
              /\ last.calls[i].kind = last.request.method[1]
              /\ last.calls[i].blob = last.request.blob[1]

\* C12 witness: a POST with a body, sent by a client with headers of its own,
\* was forwarded.
C12_Witness ==
    /\ Handled /\ last.path = "proxy" /\ Upstream(last.calls) = 1
    /\ last.request.method = Some("POST") /\ last.request.blob = Some(Text("form"))
    /\ "cookie" \in DOMAIN last.request.headers

\* A proxied request was answered through the named match arm of run_proxy.
Rewritten(name) ==
    /\ last.path = "proxy" /\ last.result = "ok"
    /\ last.responses[1].rewriter.name = name

StartTags(tokens) == SelectSeq(tokens, LAMBDA t : t.kind = "start")

\* The text of the upstream's body, the text of the body sent to the client,
\* and the first path segment of the request.
BodyText == from_utf8_lossy(serialize(last.in.up.body))
OutText == serialize(last.responses[1].body)
Prefix == last.responses[1].rewriter.prefix

\* Some href or src value of the document starts with '/'.
HasRootRelative(tokens) ==
    \E i \in 1..Len(tokens) : \E j \in 1..Len(tokens[i].attrs) :
        /\ tokens[i].attrs[j].name \in {"href", "src"}
        /\ starts_at(tokens[i].attrs[j].value, 1, "/")

\* C13: in a rewritten HTML document every href or src value that starts with
\* '/' is /{prefix}/{the value without its first character}, and every other
\* href or src value is the one of the upstream's document.
C13_RootRelativeAttributes ==
    Rewritten("modify_html")
        => LET in == StartTags(last.in.up.body)
               out == StartTags(last.responses[1].body)
           IN /\ Len(out) = Len(in)
              /\ \A i \in 1..Len(in) :
                    /\ Len(out[i].attrs) = Len(in[i].attrs)
                    /\ \A j \in 1..Len(in[i].attrs) :
                          in[i].attrs[j].name \in {"href", "src"}
                            => out[i].attrs[j].value =
                                 IF starts_at(in[i].attrs[j].value, 1, "/")
                                 THEN "/" \o Prefix \o "/" \o Tail(in[i].attrs[j].value)
                                 ELSE in[i].attrs[j].value

\* The style sheet s from position i on with every url(...) whose argument
\* starts with '/' written url(/p<argument>).
RECURSIVE CssPrefixed(_, _, _)
CssPrefixed(s, i, p) ==
    IF i > Len(s) THEN ""
    ELSE IF starts_at(s, i, "url(/") /\ find_char(s, i + 5, ")") # 0
         THEN "url(/" \o p \o SubSeq(s, i + 4, find_char(s, i + 5, ")") - 1) \o ")"
              \o CssPrefixed(s, find_char(s, i + 5, ")") + 1, p)
    ELSE At(s, i) \o CssPrefixed(s, i + 1, p)

\* C14: a rewritten style sheet is the upstream's with every url(...) whose
\* argument starts with '/' written url(/p<argument>), and nothing else
\* changed.
C14_CssUrlsRewritten ==
    Rewritten("replace_urls_css") => OutText = CssPrefixed(BodyText, 1, Prefix)

\* The script s with every "_next/" written {p}/_next/.
RECURSIVE NextPrefixed(_, _)
NextPrefixed(s, p) ==
    IF s = "" THEN ""
    ELSE IF starts_at(s, 1, "_next/")
         THEN p \o "/_next/" \o NextPrefixed(SubSeq(s, 7, Len(s)), p)
    ELSE Head(s) \o NextPrefixed(Tail(s), p)

\* C15: a rewritten script is the upstream's with every "_next/" written
\* {mount path}/_next/, the mount path being the first path segment of the
\* request.
C15_MountPathPrefixed ==
    Rewritten("replace_urls_js") => OutText = NextPrefixed(BodyText, Prefix)

\* The tokens a tokenizer reads from mother_script(prefix).
MotherScriptTokens(prefix) ==
    <<Chars("\n        "), StartTag("script", <<>>),
      Chars("\n            const HYPERWARE_APP_PATH = '" \o prefix \o "';\n        "),
      EndTag("script"), Chars("\n    ")>>

\* A rewritten document as a tokenizer reads it again.
RECURSIVE Reparse(_, _)
Reparse(tokens, prefix) ==
    IF tokens = <<>> THEN <<>>
    ELSE (IF Head(tokens).kind = "raw" THEN MotherScriptTokens(prefix) ELSE <<Head(tokens)>>)
         \o Reparse(Tail(tokens), prefix)

\* C16: a rewriter run again, with the same prefix, on its output for a body
\* that held a root-relative URL it matches gives a text other than that output.
C16_NotIdempotent ==
    /\ (Rewritten("replace_urls_css") /\ \E i \in 1..Len(BodyText) : css_match(BodyText, i) # 0)
         => replace_urls_css(OutText, Prefix) # OutText
    /\ (Rewritten("modify_html") /\ HasRootRelative(last.in.up.body))
         => serialize(modify_html(Reparse(last.responses[1].body, Prefix), Prefix)) # OutText

\* C17: a Send request and a History request are answered: their handler
\* does not return without having sent anything.
C17_SendAndHistoryAnswered ==
    last.message \in {SendMessage, HistoryMessage}
        => /\ last.path # "ignored"
           /\ last.calls # <<>> \/ last.responses # <<>>

\* The steps of a login attempt, in order.
LoginSteps == <<"NetKeySign", "NetKeyVerify", "NetKeyMakeMessage", "POST">>

\* The signer answered and reported no error.
Succeeded(reply) == reply.transport = "ok" /\ reply.reports = "ok"

\* C18: the calls of a login attempt are an initial part of sign, verify,
\* make-message, POST, and each is issued only after every earlier step
\* succeeded.
C18_FixedOrder ==
    last.path = "login"
        => /\ Len(last.calls) \in 1..4
           /\ \A i \in 1..Len(last.calls) : last.calls[i].kind = LoginSteps[i]
           /\ Len(last.calls) >= 2 => Succeeded(last.in.sign)
           /\ Len(last.calls) >= 3 => Succeeded(last.in.verify)
           /\ Len(last.calls) >= 4 => Succeeded(last.in.make)

\* C19: when the signer answers the verify request with a reported error,
\* the attempt ends there: no make-message request, no POST, an error
\* returned and Session State absent.
C19_VerifyRejectedAborts ==
    (/\ last.path = "login" /\ Len(last.calls) >= 2
     /\ last.in.verify.transport = "ok" /\ last.in.verify.reports = "error")
        => /\ Len(last.calls) = 2
           /\ last.result = "err"
           /\ SessionState = None

\* The challenge auto_login serializes in the handled attempt.
Challenge ==
    LoginMessage(IF variant = "memory" THEN WEB2_URL ELSE WEB2_URL_COPY, last.in.now,
                 WEB2_LOGIN_NONCE)

\* C20: the signer requests of an attempt all carry the one serialized
\* challenge; the POST's message is the make-message step's blob, as text
\* when it is UTF-8 and as base64 otherwise, never the challenge itself, and
\* its signature is the base64 of the sign step's blob.
C20_ChallengeAndMessage ==
    last.path = "login"
        => /\ \A i \in CallsTo(last.calls, "signer") : last.calls[i].blob = Challenge
           /\ \A i \in CallsTo(last.calls, "login") :
                 /\ last.calls[i].blob.message =
                      (IF last.in.make.blob[1].utf8 THEN last.in.make.blob[1].data
                       ELSE base64(last.in.make.blob[1]))
                 /\ last.calls[i].blob.message # Challenge.data
                 /\ last.calls[i].blob.signature = base64(last.in.sign.blob[1])
                 /\ last.calls[i].blob.node = OUR

\* C20 witness: an attempt whose message came back as bytes that are no
\* UTF-8 reached the POST.
C20_Witness ==
    /\ last.path = "login" /\ Len(last.calls) = 4
    /\ last.in.make.blob = Some(CanonicalBinary)
    /\ last.calls[4].blob.message = base64(CanonicalBinary)

(***************************************************************************)
(* Claims C21 to C27.                                                      *)
(***************************************************************************)
\* The upstream's body put once through the rewriter of its content type.
DispatchedOnce ==
    LET mime == MimeOf(last.in.up.headers.content_type)
        segment == Head(last.request.url[1].segs)
    IN CASE mime = "text/html" -> modify_html(last.in.up.body, segment)
         [] mime = "text/css" -> <<Chars(replace_urls_css(BodyText, segment))>>
         [] mime \in {"application/javascript", "application/octet-stream"} ->
              <<Chars(replace_urls_js(BodyText, segment))>>
         [] OTHER -> last.in.up.body

\* C21: a proxied request whose upstream call succeeded is answered with the
\* upstream's status and with the upstream's body passed once through the
\* content-type dispatch.
C21_DispatchOnceStatusKept ==
    (Handled /\ last.path = "proxy" /\ Upstream(last.calls) = 1
     /\ last.in.up.transport = "ok")
        => /\ Len(last.responses) = 1
           /\ last.responses[1].status = last.in.up.status
           /\ last.responses[1].body = DispatchedOnce

\* C22: when the upstream call of a proxied request fails, the handler
\* returns an error, one upstream request was issued for the request and no
\* response was sent.
C22_NoRetry ==
    (Handled /\ last.path = "proxy" /\ ~Unsendable(last.request)
     /\ last.in.up.transport # "ok")
        => /\ last.result = "err"
           /\ Upstream(last.calls) = 1 /\ Len(last.calls) = 1
           /\ last.responses = <<>>

\* C22 witness: a POST whose upstream call failed.
C22_Witness ==
    /\ Handled /\ last.path = "proxy" /\ last.request.method = Some("POST")
    /\ last.in.up = UpstreamFailure
    /\ last.result = "err" /\ Len(last.calls) = 1

\* The base URL of the build.
UpstreamBase == IF variant = "memory" THEN WEB2_URL ELSE WEB2_URL_COPY

\* C23: for a request path /s1/s2/.../sn the upstream request goes to the
\* upstream base host with the path /s2/.../sn ("/" when n = 1), and the
\* prefix handed to the rewriters is s1, which neither starts nor ends with a
\* slash.
C23_PathSplit ==
    (Handled /\ last.path = "proxy")
        => LET segs == last.request.url[1].segs
           IN /\ \A i \in CallsTo(last.calls, "upstream") :
                    /\ last.calls[i].to.host = UpstreamBase
                    /\ last.calls[i].to.segs = IF Len(segs) > 1 THEN Tail(segs) ELSE <<"">>
              /\ \A k \in 1..Len(last.responses) :
                    /\ last.responses[k].rewriter.prefix = Head(segs)
                    /\ trim_matches(last.responses[k].rewriter.prefix, "/")
                         = last.responses[k].rewriter.prefix

\* C23 witness: a request for /p/a/b.css went upstream as /a/b.css and was
\* rewritten with the prefix p.
C23_Witness ==
    /\ Handled /\ last.path = "proxy" /\ last.result = "ok"
    /\ last.request.url[1].segs = <<"p", "a", "b.css">>
    /\ last.calls[1].to.segs = <<"a", "b.css">>
    /\ last.responses[1].rewriter.prefix = "p"

\* C27: the URL of the upstream request has no query, and is the URL the
\* same request without its query goes to.
C27_QueryDropped ==
    (Handled /\ last.path = "proxy")
        => \A i \in CallsTo(last.calls, "upstream") :
              /\ last.calls[i].to.query = None
              /\ last.calls[i].to =
                   split_first_path_segment(
                       replace_domain([last.request.url[1] EXCEPT !.query = None],
                                      parse_base(UpstreamBase, PACKAGE_SEGMENT)))[2]

\* C27 witness: a request for .../home?page=2 went upstream as /home.
C27_Witness ==
    /\ Handled /\ last.path = "proxy" /\ Upstream(last.calls) = 1
    /\ last.request.url[1].query = Some("page=2")
    /\ last.calls[1].to = Url(UpstreamBase, <<"home">>, None)

\* C24: a message that is not an HTTP request of this node's HTTP server
\* leaves Session State and the state store as they were, and no call is
\* issued and no response sent; a send error, a response, a request of
\* another node or of another local process, and a WebSocket frame are
\* skipped with the loop going on.
C24_OtherEventsIgnored ==
    (last.message.kind # "none" /\ ~Handled)
        => /\ SessionState = last.before
           /\ persisted = last.stored
           /\ last.calls = <<>>
           /\ last.responses = <<>>
           /\ (last.message # UnparsableMessage
                 => last.path = "ignored" /\ last.result = "ok" /\ running)

\* C24 witness: an HTTP request that came from another node was skipped
\* while no session existed, where a handled one would have logged in.
C24_Witness ==
    /\ last.message = Message("request", "bob.os", HTTP_SERVER, "http")
    /\ last.before = None /\ SessionState = None
    /\ last.path = "ignored" /\ last.calls = <<>> /\ running

\* C25: an HTTP request is answered with at most one response, and with
\* exactly one when its handler returns Ok: the proxied response on the
\* proxy path, the refresh page on the login path.
C25_OneResponse ==
    Handled
        => /\ Len(last.responses) <= 1
           /\ (last.result = "ok"
                 => /\ Len(last.responses) = 1
                    /\ (last.path = "login") = (last.responses[1].page = RefreshPage)
                    /\ (last.path = "proxy") = (last.responses[1].page = "upstream"))

\* C25 witness: a login that ran the whole handshake and succeeded was
\* answered with the refresh page, once.
C25_Witness ==
    /\ Handled /\ last.path = "login" /\ last.result = "ok"
    /\ Len(last.responses) = 1 /\ last.responses[1].page = RefreshPage
    /\ Len(last.calls) > 1

\* C26: in the persisted build, after initialize and after every handled
\* request, the cookie get_cookie returns from memory is the cookie of the
\* record in the state store.
C26_MemoryMatchesStore ==
    variant = "persisted" => get_cookie(state) = get_cookie(load(persisted))

====
